---- MODULE Spec2Model ----
(***************************************************************************)
(* State-machine model of LuisProvider (src/providers/luis.js): the sync   *)
(* orchestration (change detection, delete, payload construction, import,  *)
(* training poll loop, publish, fingerprint write) against a provider      *)
(* whose responses are chosen by the environment.                          *)
(***************************************************************************)
EXTENDS Integers, Sequences, FiniteSets, TLC

\* ------------------------------------------------------------------ bounds
\* Number of distinct last-modified timestamps the provider hands out.
MaxTime == 3
\* Number of training polls one run may issue.
MaxPolls == 2
\* Number of submodels in one poll response.
MaxModels == 2

\* ------------------------------------------------------------- JS values
\* Values are records tagged with `kind`, so that any two can be compared.
Undefined == [kind |-> "undefined"]
\* `return []` of getRemoteVersion's catch: an empty array (truthy, no fields).
EmptyArray == [kind |-> "array"]
\* A last-modified timestamp string of the provider.
Time(n) == [kind |-> "time", t |-> n]

\* JS truthiness of the values the model handles: only undefined is falsy.
Truthy(v) == v.kind # "undefined"

LUIS_APP_VERSION == "1.0"

\* ------------------------------------------------------- entity registry
NoType == <<"", "">>
DateType == <<"@native", "date">>
TimeType == <<"@native", "time">>
NumberType == <<"@native", "number">>
ColorType == <<"@native", "color">>
CityType == <<"custom", "city">>

\* The registry: internal type -> capability record. `luis` is the
\* provider-native name, Undefined when LUIS does not support the type.
Entities ==
  [ty \in {DateType, TimeType, NumberType, ColorType} |->
     IF ty \in {DateType, TimeType}
       THEN [kind |-> "object", luis |-> [kind |-> "string", s |-> "datetimeV2"]]
     ELSE IF ty = NumberType
       THEN [kind |-> "object", luis |-> [kind |-> "string", s |-> "number"]]
     ELSE [kind |-> "object", luis |-> Undefined]]

\* Entities[label.type]: a property read, undefined for an unknown key.
EntityOf(ty) == IF ty \in DOMAIN Entities THEN Entities[ty] ELSE Undefined

\* label.type.startsWith('@native.')
StartsWithNative(ty) == ty[1] = "@native"

\* --------------------------------------------------------------- corpora
\* A canonical utterance is a sequence of segments; a segment is a run of
\* characters, annotated with an entity type or with NoType.
Seg(chars, ty) == [chars |-> chars, type |-> ty]

UHi == <<Seg(<<"h", "i">>, NoType)>>
UHello == <<Seg(<<"y", "o">>, NoType)>>
UFly == <<Seg(<<"a">>, NoType), Seg(<<"1", "2">>, DateType), Seg(<<"b">>, NoType),
          Seg(<<"3">>, NumberType)>>
UOn == <<Seg(<<"4">>, DateType), Seg(<<"c">>, NoType)>>
UCity == <<Seg(<<"5">>, DateType), Seg(<<"r", "o">>, CityType)>>
UColor == <<Seg(<<"6">>, NumberType), Seg(<<"r">>, ColorType)>>

Intent(n, us) == [name |-> n, utterances |-> us, entities |-> <<>>]

CGreet == <<Intent("greet", <<UHi, UHello>>)>>
CBook == <<Intent("greet", <<UHi>>), Intent("book", <<UFly, UOn>>)>>
CUnknown == <<Intent("greet", <<UHi>>), Intent("order", <<UCity>>)>>
CUnsupported == <<Intent("paint", <<UColor>>)>>

\* The corpora the Corpus Source can hold.
Corpora == {CGreet, CBook, CUnknown, CUnsupported}

\* The corpora payload construction is examined on: every sequence of at
\* most MaxUtterances utterances of the pool, cut into two intents.
MaxUtterances == 3
UAt == <<Seg(<<"7", "8">>, TimeType), Seg(<<"d">>, NoType), Seg(<<"9">>, NumberType)>>
UtterancePool == {UHi, UFly, UOn, UAt, UCity, UColor}
UtteranceSeqs == UNION { [1..n -> UtterancePool] : n \in 1..MaxUtterances }
AllCorpora ==
  UNION { { << Intent("greet", SubSeq(us, 1, k)),
               Intent("book", SubSeq(us, k + 1, Len(us))) >> : k \in 0..Len(us) }
          : us \in UtteranceSeqs }

\* ------------------------------------------------------ label extraction
\* parser.extractLabelsFromCanonical: plain text plus one label per annotated
\* segment, offsets being 0-based character positions into the text
\* (start inclusive, end exclusive).
RECURSIVE ExtractFrom(_, _, _)
ExtractFrom(segs, i, acc) ==
  IF i > Len(segs) THEN acc
  ELSE LET seg == segs[i]
           start == Len(acc.text)
           text == acc.text \o seg.chars
           labels == IF seg.type = NoType THEN acc.labels
                     ELSE Append(acc.labels,
                                 [type |-> seg.type, start |-> start, end |-> Len(text)])
       IN  ExtractFrom(segs, i + 1, [text |-> text, labels |-> labels])

ExtractLabelsFromCanonical(utterance, entities) ==
  ExtractFrom(utterance, 1, [text |-> <<>>, labels |-> <<>>])

\* ---------------------------------------------------- payload construction
NoError == [kind |-> "none", detail |-> <<>>]
Error(k, d) == [kind |-> k, detail |-> d]

\* The two checks of one label (the throws of the labels.forEach body).
LabelError(label) ==
  LET entity == EntityOf(label.type)
  IN  IF ~Truthy(entity) \/ ~StartsWithNative(label.type)
        THEN Error("UnknownEntity", label.type)
      ELSE IF ~Truthy(entity.luis)
        THEN Error("UnsupportedEntity", label.type)
      ELSE NoError

\* A dedupe that looks at the last name pushed only.
NotLast(seq, x) == seq = <<>> \/ seq[Len(seq)] # x

\* builtinEntities.indexOf(name) === -1
NotIn(seq, x) == \A k \in 1..Len(seq) : seq[k] # x

\* A span with the end offset made inclusive.
SpanInclusive(luis, label) ==
  [entity |-> luis, startPos |-> label.start, endPos |-> label.end - 1]

\* entities.push({entity, startPos, endPos}): the offsets as extracted.
Span(luis, label) ==
  [entity |-> luis, startPos |-> label.start, endPos |-> label.end]

\* extracted.labels.forEach: acc = [error, entities, builtinEntities].
RECURSIVE EachLabel(_, _, _)
EachLabel(labels, i, acc) ==
  IF i > Len(labels) \/ acc.error # NoError THEN acc
  ELSE LET label == labels[i]
           err == LabelError(label)
       IN  IF err # NoError
             THEN [acc EXCEPT !.error = err]
           ELSE LET luis == EntityOf(label.type).luis.s
                    builtin == IF NotIn(acc.builtinEntities, luis)
                               THEN Append(acc.builtinEntities, luis)
                               ELSE acc.builtinEntities
                    entity == Span(luis, label)
                IN  EachLabel(labels, i + 1,
                              [acc EXCEPT !.builtinEntities = builtin,
                                          !.entities = Append(@, entity)])

\* intent.utterances.forEach: acc = [error, utterances, builtinEntities].
RECURSIVE EachUtterance(_, _, _)
EachUtterance(intent, j, acc) ==
  IF j > Len(intent.utterances) \/ acc.error # NoError THEN acc
  ELSE LET extracted == ExtractLabelsFromCanonical(intent.utterances[j], intent.entities)
           r == EachLabel(extracted.labels, 1,
                          [error |-> NoError, entities |-> <<>>,
                           builtinEntities |-> acc.builtinEntities])
       IN  IF r.error # NoError
             THEN [acc EXCEPT !.error = r.error, !.builtinEntities = r.builtinEntities]
           ELSE EachUtterance(intent, j + 1,
                  [acc EXCEPT !.builtinEntities = r.builtinEntities,
                              !.utterances = Append(@, [text |-> extracted.text,
                                                        intent |-> intent.name,
                                                        entities |-> r.entities])])

\* intents.forEach
RECURSIVE EachIntent(_, _, _)
EachIntent(localIntents, i, acc) ==
  IF i > Len(localIntents) \/ acc.error # NoError THEN acc
  ELSE EachIntent(localIntents, i + 1, EachUtterance(localIntents[i], 1, acc))

\* The construction loop of sync(): the utterances and builtinEntities
\* arrays, or the error thrown on the first offending label.
BuildUtterances(localIntents) ==
  EachIntent(localIntents, 1,
             [error |-> NoError, utterances |-> <<>>, builtinEntities |-> <<>>])

\* What getAppInfo returns for this app.
AppInfo == [name |-> "bot", description |-> "a bot", culture |-> "en-us"]

\* The import body.
Body(localIntents, built, appInfo) ==
  [luis_schema_version |-> "2.1.0",
   versionId |-> LUIS_APP_VERSION,
   name |-> appInfo.name,
   desc |-> appInfo.description,
   culture |-> appInfo.culture,
   intents |-> [k \in 1..Len(localIntents) |-> [name |-> localIntents[k].name]],
   entities |-> <<>>,
   bing_entities |-> built.builtinEntities,
   utterances |-> built.utterances]

NoBody == <<>>

\* ------------------------------------------------------- change detection
\* md5 of JSON.stringify(localIntents): a digest of the whole corpus value,
\* taken to be collision-free.
IntentsHash(localIntents) == [kind |-> "md5", of |-> localIntents]

\* remoteVersion.lastModifiedDateTime for a value that is not undefined: the
\* field of a version object, undefined on the empty array.
LastModifiedDateTime(remoteVersion) ==
  IF remoteVersion.kind = "version" THEN remoteVersion.lastModifiedDateTime
  ELSE Undefined

\* isInSync comparing the content hash only.
IsInSyncHashOnly(localIntents, remoteVersion, metadata) ==
  IF ~Truthy(metadata) THEN "false"
  ELSE IF metadata.hash # IntentsHash(localIntents) THEN "false"
  ELSE "true"

\* isInSync: "true", "false" (any falsy result), or "TypeError" when the
\* && chain reaches the property read on an undefined remoteVersion.
IsInSync(localIntents, remoteVersion, metadata) ==
  IF ~Truthy(metadata) THEN "false"
  ELSE IF metadata.hash # IntentsHash(localIntents) THEN "false"
  ELSE IF remoteVersion.kind = "undefined" THEN "TypeError"
  ELSE IF metadata.time = LastModifiedDateTime(remoteVersion) THEN "true"
  ELSE "false"

\* onSyncSuccess storing the hash without the remote timestamp.
FingerprintNoTime(localIntents, remoteVersion) ==
  [kind |-> "object", hash |-> IntentsHash(localIntents), time |-> Undefined]

\* The object onSyncSuccess stores; reading lastModifiedDateTime of an
\* undefined remoteVersion throws before kvs.set is called.
Fingerprint(localIntents, remoteVersion) ==
  [kind |-> "object", hash |-> IntentsHash(localIntents),
   time |-> LastModifiedDateTime(remoteVersion)]

\* ----------------------------------------------------------- poll loop
\* A field the provider's response does not carry.
Absent == "undefined"

\* One entry of the training-status response.
Submodel(id, top, det, reason) ==
  [modelId |-> id, status |-> top,
   details |-> [status |-> det, failureReason |-> reason]]

\* The shapes of entry the provider may send for submodel `id`.
SubmodelShapes(id) ==
  { Submodel(id, Absent, "InProgress", Absent),
    Submodel(id, Absent, "Success", Absent),
    Submodel(id, Absent, "Fail", "FewLabels"),
    Submodel(id, "Fail", "Fail", "FewLabels") }

\* The training-status responses: every list of at most MaxModels entries.
PollResponses ==
  UNION { { r \in [1..n -> UNION { SubmodelShapes(id) : id \in 1..n }] :
              \A k \in 1..n : r[k].modelId = k } : n \in 0..MaxModels }

\* _.filter(models, m => m.details.status === 'InProgress').length
CountInProgress(models) ==
  Cardinality({ k \in 1..Len(models) : models[k].details.status = "InProgress" })

\* percent, kept as the fraction <<numerator, denominator>>; 0/0 is NaN.
Percent(models) == << Len(models) - CountInProgress(models), Len(models) >>

\* percent >= 1, false for NaN.
PercentGE1(p) == p[2] # 0 /\ p[1] >= p[2]

\* _.find(models, { status: 'Fail' }): the first match, or undefined.
FindFail(models) ==
  LET hits == { k \in 1..Len(models) : models[k].status = "Fail" }
  IN  IF hits = {} THEN Undefined
      ELSE [kind |-> "object",
            model |-> models[CHOOSE k \in hits : \A h \in hits : k <= h]]

\* One iteration of the while loop on response `models`: throw, break, or
\* wait and poll again.
PollStep(models) ==
  IF Truthy(FindFail(models)) THEN "throw"
  ELSE IF PercentGE1(Percent(models)) THEN "break"
  ELSE "again"

\* this.isProduction is never assigned by the constructor.
isProduction == Undefined

\* The publish body of a provider whose production flag is set.
PublishBodyProduction ==
  [versionId |-> LUIS_APP_VERSION, isStaging |-> FALSE, region |-> "westus"]

\* The body of the publish call.
PublishBody ==
  [versionId |-> LUIS_APP_VERSION, isStaging |-> ~Truthy(isProduction),
   region |-> "westus"]

\* ------------------------------------------------------------- provider
NoVersion ==
  [exists |-> FALSE, lastModifiedDateTime |-> Undefined, body |-> NoBody,
   published |-> FALSE]

\* The version list of the app (res.data): the app's initial version and,
\* when it exists, the version the client manages.
Versions(r) ==
  << [kind |-> "version", version |-> "0.1", lastModifiedDateTime |-> Time(0)] >>
  \o (IF r.exists
        THEN << [kind |-> "version", version |-> LUIS_APP_VERSION,
                 lastModifiedDateTime |-> r.lastModifiedDateTime] >>
        ELSE << >>)

\* _.find(list, { version: v })
FindVersion(list, v) ==
  LET hits == { k \in 1..Len(list) : list[k].version = v }
  IN  IF hits = {} THEN Undefined
      ELSE list[CHOOSE k \in hits : \A h \in hits : k <= h]

\* getRemoteVersion: the version found, undefined when there is none, and
\* the empty array when the request fails.
GetRemoteVersion(r, ok) ==
  IF ok THEN FindVersion(Versions(r), LUIS_APP_VERSION) ELSE EmptyArray

\* ----------------------------------------------------------------- state
VARIABLES
  storage,         \* the corpus the Corpus Source holds
  kvs,             \* the value under LUIS_HASH_KVS_KEY, Undefined when unset
  remote,          \* the provider's version LUIS_APP_VERSION
  clock,           \* the next timestamp the provider hands out
  pc,              \* position of the running sync(), "idle" between runs
  intents,         \* sync's local `intents`
  currentVersion,  \* sync's local `currentVersion`
  body,            \* sync's local `body`
  calls,           \* the remote and store calls the run has issued, in order
  outcome,         \* how the run ended
  error,           \* the error the run threw or logged
  percent,         \* train's local `percent` of the last poll iteration
  sawFail,         \* some response of the run had a submodel reporting Fail
  kvsAtStart,      \* kvs when the run started
  prev,            \* summary of the previous run
  extSince,         \* the remote model was changed by others since the client last re-read it
  other,           \* the locals of a second sync() invocation while it is suspended
  overlapped       \* two invocations have been in flight at the same time

vars == << storage, kvs, remote, clock, pc, intents, currentVersion, body, calls,
           outcome, error, percent, sawFail, kvsAtStart, prev, extSince, other,
           overlapped >>

Call(op, ok, arg) == [op |-> op, ok |-> ok, arg |-> arg]
NoArg == <<>>
NoPercent == << -1, -1 >>
NoIntents == <<>>
NoPrev == [outcome |-> "none", intents |-> NoIntents, touched |-> FALSE, clean |-> FALSE]

\* A sync() invocation is between its first and its last step.
InFlight(p) == p \notin {"idle", "done"}

\* The locals of an invocation: of one that has not started, and of the
\* one that is running.
NoOther ==
  [pc |-> "idle", intents |-> NoIntents, currentVersion |-> Undefined, body |-> <<>>,
   calls |-> <<>>, outcome |-> "none", error |-> [kind |-> "none", detail |-> <<>>],
   percent |-> NoPercent, sawFail |-> FALSE, kvsAtStart |-> Undefined]
Locals ==
  [pc |-> pc, intents |-> intents, currentVersion |-> currentVersion, body |-> body,
   calls |-> calls, outcome |-> outcome, error |-> error, percent |-> percent,
   sawFail |-> sawFail, kvsAtStart |-> kvsAtStart]

Ops(cs) == { cs[k].op : k \in 1..Len(cs) }
Count(cs, op) == Cardinality({ k \in 1..Len(cs) : cs[k].op = op })

Init ==
  /\ storage \in Corpora
  /\ kvs = Undefined
  /\ remote = NoVersion
  /\ clock = 1
  /\ pc = "idle"
  /\ intents = NoIntents
  /\ currentVersion = Undefined
  /\ body = NoBody
  /\ calls = <<>>
  /\ outcome = "none"
  /\ error = NoError
  /\ percent = NoPercent
  /\ sawFail = FALSE
  /\ kvsAtStart = Undefined
  /\ prev = NoPrev
  /\ extSince = FALSE
  /\ other = NoOther
  /\ overlapped = FALSE

\* The run ends: returns, throws to the caller, or is caught and logged.
Finish(how, err) ==
  /\ pc' = "done"
  /\ outcome' = how
  /\ error' = err

\* let intents = await this.storage.getIntents()
StartSync ==
  /\ pc = "idle"
  /\ intents' = storage
  /\ kvsAtStart' = kvs
  /\ pc' = "lookup"
  /\ overlapped' = (overlapped \/ InFlight(other.pc))
  /\ UNCHANGED << other, storage, kvs, remote, clock, currentVersion, body, calls, outcome,
                  error, percent, sawFail, prev, extSince >>

\* let currentVersion = await this.getRemoteVersion()
Lookup ==
  /\ pc = "lookup"
  /\ \E ok \in BOOLEAN :
       /\ currentVersion' = GetRemoteVersion(remote, ok)
       /\ calls' = Append(calls, Call("lookup", ok, IF ok THEN Versions(remote) ELSE NoArg))
  /\ pc' = "check"
  /\ UNCHANGED << other, overlapped, storage, kvs, remote, clock, intents, body, outcome, error,
                  percent, sawFail, kvsAtStart, prev, extSince >>

\* sync() with the old version deleted before the up-to-date return.
CheckSyncDeleting ==
  /\ pc = "check"
  /\ LET r == IsInSync(intents, currentVersion, kvs)
     IN  CASE r = "true" ->
                /\ Finish("upToDate", NoError)
                /\ calls' = Append(calls, Call("delete", remote.exists, NoArg))
                /\ remote' = NoVersion
           [] r = "TypeError" ->
                /\ Finish("raised", Error("TypeError", <<>>))
                /\ UNCHANGED << calls, remote >>
           [] OTHER -> /\ pc' = IF Truthy(currentVersion) THEN "delete" ELSE "build"
                       /\ UNCHANGED << outcome, error, calls, remote >>
  /\ UNCHANGED << other, overlapped, storage, kvs, clock, intents, currentVersion, body,
                  percent, sawFail, kvsAtStart, prev, extSince >>

\* if (await this.isInSync(intents, currentVersion)) ... and the test of
\* currentVersion that follows.
CheckSync ==
  /\ pc = "check"
  /\ LET r == IsInSync(intents, currentVersion, kvs)
     IN  CASE r = "true" -> Finish("upToDate", NoError)
           [] r = "TypeError" -> Finish("raised", Error("TypeError", <<>>))
           [] OTHER -> /\ pc' = IF Truthy(currentVersion) THEN "delete" ELSE "build"
                       /\ UNCHANGED << outcome, error >>
  /\ UNCHANGED << other, overlapped, storage, kvs, remote, clock, intents, currentVersion, body, calls,
                  percent, sawFail, kvsAtStart, prev, extSince >>

\* deleteVersion() letting a failure of the delete call end the run.
DeleteVersionAborting ==
  /\ pc = "delete"
  /\ \E ok \in BOOLEAN :
       /\ ok => remote.exists
       /\ remote' = IF ok THEN NoVersion ELSE remote
       /\ calls' = Append(calls, Call("delete", ok, NoArg))
       /\ IF ok
            THEN /\ pc' = "build"
                 /\ UNCHANGED << outcome, error >>
          ELSE Finish("raised", Error("DeleteError", <<>>))
  /\ UNCHANGED << other, overlapped, storage, kvs, clock, intents, currentVersion, body,
                  percent, sawFail, kvsAtStart, prev, extSince >>

\* await this.deleteVersion(): a failure is logged and swallowed.
DeleteVersion ==
  /\ pc = "delete"
  /\ \E ok \in BOOLEAN :
       /\ ok => remote.exists
       /\ remote' = IF ok THEN NoVersion ELSE remote
       /\ calls' = Append(calls, Call("delete", ok, NoArg))
  /\ pc' = "build"
  /\ UNCHANGED << other, overlapped, storage, kvs, clock, intents, currentVersion, body, outcome, error,
                  percent, sawFail, kvsAtStart, prev, extSince >>

\* The construction loop with its errors dropped instead of thrown.
BuildPayloadNoThrow ==
  /\ pc = "build"
  /\ pc' = "appInfo"
  /\ prev' = NoPrev
  /\ extSince' = FALSE
  /\ UNCHANGED << other, overlapped, storage, kvs, remote, clock, intents, currentVersion, body, calls,
                  percent, sawFail, kvsAtStart, outcome, error >>

\* The construction loop: a bad label throws out of sync(). From here on
\* what is remembered of the time before the run is no longer needed.
BuildPayload ==
  /\ pc = "build"
  /\ LET built == BuildUtterances(intents)
     IN  IF built.error # NoError
           THEN Finish("raised", built.error)
         ELSE /\ pc' = "appInfo"
              /\ UNCHANGED << outcome, error >>
  /\ prev' = NoPrev
  /\ extSince' = FALSE
  /\ UNCHANGED << other, overlapped, storage, kvs, remote, clock, intents, currentVersion, body, calls,
                  percent, sawFail, kvsAtStart >>

\* const appInfo = await this.getAppInfo(), then the body is assembled.
GetAppInfo ==
  /\ pc = "appInfo"
  /\ \E ok \in BOOLEAN :
       /\ calls' = Append(calls, Call("appInfo", ok, NoArg))
       /\ IF ok
            THEN /\ body' = Body(intents, BuildUtterances(intents), AppInfo)
                 /\ pc' = "import"
                 /\ UNCHANGED << outcome, error >>
          ELSE /\ Finish("raised", Error("AppNotFound", <<>>))
               /\ UNCHANGED body
  /\ UNCHANGED << other, overlapped, storage, kvs, remote, clock, intents, currentVersion, percent,
                  sawFail, kvsAtStart, prev, extSince >>

\* The import post with its failure swallowed instead of ending the run.
ImportSwallowed ==
  /\ pc = "import"
  /\ \E ok \in BOOLEAN :
       /\ ok => (~remote.exists /\ clock <= MaxTime)
       /\ calls' = Append(calls, Call("import", ok, body))
       /\ remote' = IF ok THEN [exists |-> TRUE, lastModifiedDateTime |-> Time(clock),
                                body |-> body, published |-> FALSE]
                  ELSE remote
       /\ clock' = IF ok THEN clock + 1 ELSE clock
  /\ pc' = "train"
  /\ UNCHANGED << other, overlapped, storage, kvs, intents, currentVersion, body, percent, sawFail,
                  kvsAtStart, prev, extSince, outcome, error >>

\* The import post; the provider refuses a version identifier it holds.
Import ==
  /\ pc = "import"
  /\ \E ok \in BOOLEAN :
       /\ ok => (~remote.exists /\ clock <= MaxTime)
       /\ calls' = Append(calls, Call("import", ok, body))
       /\ IF ok
            THEN /\ remote' = [exists |-> TRUE, lastModifiedDateTime |-> Time(clock),
                               body |-> body, published |-> FALSE]
                 /\ clock' = clock + 1
                 /\ pc' = "train"
                 /\ UNCHANGED << outcome, error >>
          ELSE /\ Finish("failed", Error("ImportError", <<>>))
               /\ UNCHANGED << remote, clock >>
  /\ UNCHANGED << other, overlapped, storage, kvs, intents, currentVersion, body, percent, sawFail,
                  kvsAtStart, prev, extSince >>

\* train() with the test of the status left out.
TrainStartAnyStatus ==
  /\ pc = "train"
  /\ \E status \in {"Queued", "UpToDate", "TransportError"} :
       /\ calls' = Append(calls, Call("train", status # "TransportError", status))
       /\ IF status # "TransportError"
            THEN /\ pc' = "poll"
                 /\ UNCHANGED << outcome, error >>
          ELSE Finish("failed", Error("TrainError", <<>>))
  /\ UNCHANGED << other, overlapped, storage, kvs, remote, clock, intents, currentVersion, body,
                  percent, sawFail, kvsAtStart, prev, extSince >>

\* train(): the training start and the test of its status.
TrainStart ==
  /\ pc = "train"
  /\ \E status \in {"Queued", "UpToDate", "TransportError"} :
       /\ calls' = Append(calls, Call("train", status # "TransportError", status))
       /\ IF status = "Queued"
            THEN /\ pc' = "poll"
                 /\ UNCHANGED << outcome, error >>
          ELSE IF status = "TransportError"
            THEN Finish("failed", Error("TrainError", <<>>))
          ELSE Finish("failed", Error("NotQueued", status))
  /\ UNCHANGED << other, overlapped, storage, kvs, remote, clock, intents, currentVersion, body,
                  percent, sawFail, kvsAtStart, prev, extSince >>

HasFail(models) ==
  \E k \in 1..Len(models) :
     models[k].status = "Fail" \/ models[k].details.status = "Fail"

\* train(): one iteration of the while loop, the delay included.
Poll ==
  /\ pc = "poll"
  /\ Count(calls, "poll") < MaxPolls
  /\ \/ /\ calls' = Append(calls, Call("poll", FALSE, NoArg))
        /\ Finish("failed", Error("PollError", <<>>))
        /\ UNCHANGED << percent, sawFail >>
     \/ \E models \in PollResponses :
          /\ calls' = Append(calls, Call("poll", TRUE, NoArg))
          /\ percent' = Percent(models)
          /\ sawFail' = (sawFail \/ HasFail(models))
          /\ CASE PollStep(models) = "throw" ->
                    LET e == FindFail(models).model
                    IN  Finish("failed", Error("TrainingFailed",
                                               << e.modelId, e.details.failureReason >>))
               [] PollStep(models) = "break" ->
                    /\ pc' = "publish"
                    /\ UNCHANGED << outcome, error >>
               [] OTHER -> UNCHANGED << pc, outcome, error >>
  /\ UNCHANGED << other, overlapped, storage, kvs, remote, clock, intents, currentVersion, body,
                  kvsAtStart, prev, extSince >>

\* train() with a publish failure swallowed instead of thrown.
PublishSwallowed ==
  /\ pc = "publish"
  /\ \E ok \in BOOLEAN :
       /\ ok => remote.exists
       /\ calls' = Append(calls, Call("publish", ok, PublishBody))
       /\ remote' = IF ok THEN [remote EXCEPT !.published = TRUE] ELSE remote
  /\ pc' = "reread"
  /\ UNCHANGED << other, overlapped, storage, kvs, clock, intents, currentVersion, body, percent,
                  sawFail, kvsAtStart, prev, extSince, outcome, error >>

\* train(): the publish post.
Publish ==
  /\ pc = "publish"
  /\ \E ok \in BOOLEAN :
       /\ ok => remote.exists
       /\ calls' = Append(calls, Call("publish", ok, PublishBody))
       /\ IF ok
            THEN /\ remote' = [remote EXCEPT !.published = TRUE]
                 /\ pc' = "reread"
                 /\ UNCHANGED << outcome, error >>
          ELSE /\ Finish("failed", Error("PublishError", <<>>))
               /\ UNCHANGED remote
  /\ UNCHANGED << other, overlapped, storage, kvs, clock, intents, currentVersion, body, percent,
                  sawFail, kvsAtStart, prev, extSince >>

\* currentVersion = await this.getRemoteVersion(), after train() returned.
ReRead ==
  /\ pc = "reread"
  /\ \E ok \in BOOLEAN :
       /\ currentVersion' = GetRemoteVersion(remote, ok)
       /\ calls' = Append(calls, Call("lookup", ok, IF ok THEN Versions(remote) ELSE NoArg))
       /\ extSince' = IF ok THEN FALSE ELSE extSince
  /\ pc' = "record"
  /\ UNCHANGED << other, overlapped, storage, kvs, remote, clock, intents, body, outcome, error,
                  percent, sawFail, kvsAtStart, prev >>

\* onSyncSuccess with the corpus read again when the fingerprint is written.
OnSyncSuccessReadingAgain ==
  /\ pc = "record"
  /\ IF currentVersion.kind = "undefined"
       THEN /\ Finish("failed", Error("TypeError", <<>>))
            /\ UNCHANGED << kvs, calls >>
     ELSE /\ kvs' = Fingerprint(storage, currentVersion)
          /\ calls' = Append(calls, Call("kvsSet", TRUE, NoArg))
          /\ Finish("synced", NoError)
  /\ UNCHANGED << other, overlapped, storage, remote, clock, intents, currentVersion,
                  body, percent, sawFail, kvsAtStart, prev, extSince >>

\* await this.onSyncSuccess(intents, currentVersion), inside the try.
OnSyncSuccess ==
  /\ pc = "record"
  /\ IF currentVersion.kind = "undefined"
       THEN /\ Finish("failed", Error("TypeError", <<>>))
            /\ UNCHANGED << kvs, calls >>
     ELSE /\ kvs' = Fingerprint(intents, currentVersion)
          /\ calls' = Append(calls, Call("kvsSet", TRUE, NoArg))
          /\ Finish("synced", NoError)
  /\ UNCHANGED << other, overlapped, storage, remote, clock, intents, currentVersion, body, percent,
                  sawFail, kvsAtStart, prev, extSince >>

Touched(cs) == {"delete", "import"} \cap Ops(cs) # {}

\* The locals of a run that is over are gone; its summary is kept.
Reset(how) ==
  /\ prev' = [outcome |-> how, intents |-> intents, touched |-> Touched(calls),
              clean |-> \A k \in 1..Len(calls) : calls[k].ok]
  /\ pc' = "idle"
  /\ intents' = NoIntents
  /\ currentVersion' = Undefined
  /\ body' = NoBody
  /\ calls' = <<>>
  /\ outcome' = "none"
  /\ error' = NoError
  /\ percent' = NoPercent
  /\ sawFail' = FALSE

\* The process is stopped in the middle of a run.
Interrupt ==
  /\ pc \notin {"idle", "done"}
  /\ Reset("interrupted")
  /\ UNCHANGED << other, overlapped, storage, kvs, remote, clock, kvsAtStart, extSince >>

\* The run is over; the next sync() may start.
EndRun ==
  /\ pc = "done"
  /\ Reset(outcome)
  /\ UNCHANGED << other, overlapped, storage, kvs, remote, clock, kvsAtStart, extSince >>

\* The bot's author edits the corpus.
EditCorpus ==
  /\ pc = "idle"
  /\ \E c \in Corpora \ {storage} : storage' = c
  /\ UNCHANGED << other, overlapped, kvs, remote, clock, pc, intents, currentVersion, body, calls,
                  outcome, error, percent, sawFail, kvsAtStart, prev, extSince >>

\* Someone else modifies the remote version.
ExternalTouch ==
  /\ remote.exists
  /\ clock <= MaxTime
  /\ remote' = [remote EXCEPT !.lastModifiedDateTime = Time(clock)]
  /\ clock' = clock + 1
  /\ extSince' = TRUE
  /\ UNCHANGED << other, overlapped, storage, kvs, pc, intents, currentVersion, body, calls, outcome,
                  error, percent, sawFail, kvsAtStart, prev >>

\* Someone else deletes the remote version.
ExternalDelete ==
  /\ remote.exists
  /\ remote' = NoVersion
  /\ extSince' = TRUE
  /\ UNCHANGED << other, overlapped, storage, kvs, clock, pc, intents, currentVersion, body, calls,
                  outcome, error, percent, sawFail, kvsAtStart, prev >>

Next ==
  \/ StartSync
  \/ Lookup
  \/ CheckSync
  \/ DeleteVersion
  \/ BuildPayload
  \/ GetAppInfo
  \/ Import
  \/ TrainStart
  \/ Poll
  \/ Publish
  \/ ReRead
  \/ OnSyncSuccess
  \/ Interrupt
  \/ EndRun
  \/ EditCorpus
  \/ ExternalTouch
  \/ ExternalDelete

Spec == Init /\ [][Next]_vars

\* ------------------------------------------ nobody else touches the app
\* The runs, the interruptions and the corpus edits, the remote model being
\* changed by the runs only.
NextClosed ==
  \/ StartSync
  \/ Lookup
  \/ CheckSync
  \/ DeleteVersion
  \/ BuildPayload
  \/ GetAppInfo
  \/ Import
  \/ TrainStart
  \/ Poll
  \/ Publish
  \/ ReRead
  \/ OnSyncSuccess
  \/ Interrupt
  \/ EndRun
  \/ EditCorpus

SpecClosed == Init /\ [][NextClosed]_vars

\* ------------------------------------------------- two invocations
\* sync() is called again while a call of it is waiting at an await: the
\* event loop goes on with the other invocation. Both work on the same
\* store and the same app; each has its own locals. An invocation is set
\* aside only where its next step reads or writes the store or the remote
\* version: the steps in between touch its locals only, so setting it aside
\* before them or after them makes no difference. A finished invocation is
\* not taken up again.
Switch ==
  /\ other.pc # "done"
  /\ pc # "idle" \/ other.pc # "idle"
  /\ pc \notin {"build", "appInfo", "train", "poll"}
  /\ other' = Locals
  /\ pc' = other.pc
  /\ intents' = other.intents
  /\ currentVersion' = other.currentVersion
  /\ body' = other.body
  /\ calls' = other.calls
  /\ outcome' = other.outcome
  /\ error' = other.error
  /\ percent' = other.percent
  /\ sawFail' = other.sawFail
  /\ kvsAtStart' = other.kvsAtStart
  /\ UNCHANGED << storage, kvs, remote, clock, prev, extSince, overlapped >>

\* The corpora whose labels are all supported.
GoodCorpora == {CGreet, CBook}

\* The places of a first sync from which the second invocation is watched.
Places == {"import", "publish", "reread", "record"}

\* The remote version after the first sync of corpus a has come to place p.
RemoteAt(a, p) ==
  IF p = "import" THEN NoVersion
  ELSE [exists |-> TRUE, lastModifiedDateTime |-> Time(1),
        body |-> Body(a, BuildUtterances(a), AppInfo), published |-> p # "publish"]

\* The calls of a first sync of corpus a in which nothing failed, up to
\* place p.
CallsAt(a, p) ==
  << Call("lookup", TRUE, Versions(NoVersion)), Call("appInfo", TRUE, NoArg) >>
  \o (IF p = "import" THEN <<>>
      ELSE << Call("import", TRUE, Body(a, BuildUtterances(a), AppInfo)),
              Call("train", TRUE, "Queued"),
              Call("poll", TRUE, NoArg) >>)
  \o (IF p \in {"import", "publish"} THEN <<>>
      ELSE << Call("publish", TRUE, PublishBody) >>)
  \o (IF p = "record" THEN << Call("lookup", TRUE, Versions(RemoteAt(a, p))) >> ELSE <<>>)

\* A first sync of a supported corpus, nothing having failed, has come to its
\* import call, its publish call, its re-read or its fingerprint write; the corpus has
\* been edited since the run read it, and sync() is about to be called again.
InitTwo ==
  \E a \in GoodCorpora : \E b \in Corpora \ {a} : \E p \in Places :
    /\ storage = b
    /\ kvs = Undefined
    /\ remote = RemoteAt(a, p)
    /\ clock = IF p = "import" THEN 1 ELSE 2
    /\ pc = p
    /\ intents = a
    /\ currentVersion = IF p = "record" THEN GetRemoteVersion(RemoteAt(a, p), TRUE)
                        ELSE Undefined
    /\ body = Body(a, BuildUtterances(a), AppInfo)
    /\ calls = CallsAt(a, p)
    /\ outcome = "none"
    /\ error = NoError
    /\ percent = IF p = "import" THEN NoPercent ELSE << 1, 1 >>
    /\ sawFail = FALSE
    /\ kvsAtStart = Undefined
    /\ prev = NoPrev
    /\ extSince = FALSE
    /\ other = NoOther
    /\ overlapped = FALSE

NextTwo ==
  \/ StartSync
  \/ Lookup
  \/ CheckSync
  \/ DeleteVersion
  \/ BuildPayload
  \/ GetAppInfo
  \/ Import
  \/ TrainStart
  \/ Poll
  \/ Publish
  \/ ReRead
  \/ OnSyncSuccess
  \/ Switch

SpecTwo == InitTwo /\ [][NextTwo]_vars

\* ------------------------------------------- payload construction alone
\* A run that is about to build its payload, for any corpus of AllCorpora:
\* no fingerprint is stored and the lookup found no version.
InitBuild ==
  /\ storage \in AllCorpora
  /\ intents = storage
  /\ kvs = Undefined
  /\ remote = NoVersion
  /\ clock = 1
  /\ pc = "build"
  /\ currentVersion = Undefined
  /\ body = NoBody
  /\ calls = << Call("lookup", TRUE, Versions(NoVersion)) >>
  /\ outcome = "none"
  /\ error = NoError
  /\ percent = NoPercent
  /\ sawFail = FALSE
  /\ kvsAtStart = Undefined
  /\ prev = NoPrev
  /\ extSince = FALSE
  /\ other = NoOther
  /\ overlapped = FALSE

\* The construction loop, then the app-info fetch and the body.
NextBuild ==
  \/ BuildPayload
  \/ GetAppInfo

SpecBuild == InitBuild /\ [][NextBuild]_vars

\* ------------------------------------------------------------ properties
\* Positions of the calls named `op` in a call log.
At(cs, op) == { k \in 1..Len(cs) : cs[k].op = op }
Before(cs, a, b) == \A i \in At(cs, a), j \in At(cs, b) : i < j

\* The version list of a successful lookup holds the managed version.
HasVersion(list) == \E k \in 1..Len(list) : list[k].version = LUIS_APP_VERSION

\* The run has just decided that a sync is needed.
WentOn == pc \in {"delete", "build"}
\* The run ended in change detection: up to date, or an error thrown there.
EndedAtCheck ==
  pc = "done" /\ Len(calls) = 1 /\ (outcome = "upToDate" \/ error.kind = "TypeError")

\* Import, training start, every poll and publish were issued in this order
\* and all succeeded.
AllSucceeded(cs) ==
  /\ \A k \in 1..Len(cs) :
       cs[k].op \in {"import", "train", "poll", "publish"} => cs[k].ok
  /\ \A op \in {"import", "train", "poll", "publish"} : At(cs, op) # {}
  /\ \A k \in At(cs, "train") : cs[k].arg = "Queued"
  /\ Before(cs, "import", "train") /\ Before(cs, "train", "poll")
  /\ Before(cs, "poll", "publish") /\ Before(cs, "publish", "kvsSet")

\* C1: the fingerprint store is written only by a run whose import, training
\* start, polls and publish were all issued before and all succeeded; a run
\* that has not written it, and a run that failed, threw or was interrupted,
\* leaves the stored fingerprint as it was when the run started.
C1_FingerprintOnlyAfterSuccess ==
  /\ pc # "idle" =>
       IF "kvsSet" \in Ops(calls)
         THEN AllSucceeded(calls) /\ pc = "done" /\ outcome = "synced"
       ELSE kvs = kvsAtStart
  /\ (pc = "idle" /\ prev.outcome \in {"failed", "raised", "interrupted", "upToDate"})
       => kvs = kvsAtStart

C1_Witness ==
  pc = "done" /\ outcome = "synced" /\ "kvsSet" \in Ops(calls) /\ kvs # kvsAtStart

\* The previous run ended well (synced, or found up to date) with every call
\* of it succeeding.
PrevOk == prev.outcome \in {"synced", "upToDate"} /\ prev.clean

\* C2: when the previous run ended well, the corpus is the one it read, the
\* remote model was not changed by others since, and this run's version
\* lookup succeeds, this run ends up to date having issued the lookup and no
\* other call, with the stored fingerprint unchanged.
C2_Idempotent ==
  (/\ WentOn \/ pc = "done"
   /\ PrevOk /\ intents = prev.intents /\ ~extSince /\ calls[1].ok)
  => /\ pc = "done" /\ outcome = "upToDate"
     /\ calls = << Call("lookup", TRUE, Versions(remote)) >>
     /\ kvs = kvsAtStart

C2_Witness ==
  /\ pc = "done" /\ outcome = "upToDate" /\ prev.outcome = "synced" /\ prev.clean
  /\ intents = prev.intents /\ ~extSince

\* C3: for a remote version descriptor, 'in sync' is reported exactly when a
\* fingerprint is stored, its hash is the hash of the corpus and its time is
\* the version's last-modified time; with no fingerprint, or with the
\* fingerprint of another corpus, a sync is needed whatever the lookup gave.
C3_ChangeDetectionRule ==
  (WentOn \/ EndedAtCheck) =>
    /\ currentVersion.kind = "version" =>
         /\ error = NoError
         /\ (outcome = "upToDate") <=>
              (/\ kvs # Undefined
               /\ kvs.hash = IntentsHash(intents)
               /\ kvs.time = currentVersion.lastModifiedDateTime)
    /\ (kvs = Undefined \/ kvs.hash # IntentsHash(intents)) => WentOn
    /\ (kvs # Undefined /\ kvs.hash.of # intents) => WentOn

\* Stale remote: the content is unchanged but the remote timestamp differs.
C3_Witness ==
  /\ WentOn /\ currentVersion.kind = "version" /\ kvs # Undefined
  /\ kvs.hash = IntentsHash(intents)
  /\ kvs.time # currentVersion.lastModifiedDateTime

\* The lookup that opened the run found the managed version.
FoundVersion == calls[1].ok /\ HasVersion(calls[1].arg)

\* C4: when the version lookup finds no version with the fixed identifier, or
\* fails, change detection reports that a sync is needed, whatever fingerprint
\* is stored, without an error: the run goes on to rebuild and never ends
\* with 'Model is up to date'.
C4_AbsentCountsAsMismatch ==
  ((WentOn \/ EndedAtCheck) /\ ~FoundVersion) => (WentOn /\ error = NoError)

\* C5: a run that follows, on the same corpus, a run that failed, threw or
\* was interrupted after its delete or import call decides that a sync is
\* needed: it neither ends 'up to date' nor throws in change detection.
C5_RecoveryAfterFailedRun ==
  (/\ WentOn \/ EndedAtCheck
   /\ prev.outcome \in {"failed", "raised", "interrupted"}
   /\ prev.touched
   /\ intents = prev.intents)
  => WentOn

\* Some label of the corpus has a type the registry does not know, or knows
\* but without a provider-native name.
HasBadLabel(localIntents) ==
  \E i \in 1..Len(localIntents) :
    \E j \in 1..Len(localIntents[i].utterances) :
      \E k \in 1..Len(localIntents[i].utterances[j]) :
        LET ty == localIntents[i].utterances[j][k].type
        IN  /\ ty # NoType
            /\ (ty \notin DOMAIN Entities \/ Entities[ty].luis = Undefined)

AppInfoFailed == \E k \in 1..Len(calls) : calls[k].op = "appInfo" /\ ~calls[k].ok

\* C6: a run whose corpus carries an unknown or unsupported label, and a run
\* whose app-info fetch failed, issues no import, training start, poll or
\* publish call and writes no fingerprint; when it ends, it ends by throwing
\* the construction error.
C6_ConstructionErrorsNeverReachImport ==
  (pc # "idle" /\ (HasBadLabel(intents) \/ AppInfoFailed)) =>
    /\ {"import", "train", "poll", "publish", "kvsSet"} \cap Ops(calls) = {}
    /\ kvs = kvsAtStart
    /\ HasBadLabel(intents) => pc \in {"lookup", "check", "delete", "build", "done"}
    /\ pc = "done" =>
         /\ outcome = "raised"
         /\ error.kind \in {"UnknownEntity", "UnsupportedEntity", "AppNotFound"}

\* A run that deleted the old version and then aborted on an unsupported label.
C6_Witness ==
  /\ pc = "done" /\ HasBadLabel(intents) /\ error.kind = "UnsupportedEntity"
  /\ At(calls, "delete") # {} /\ calls[2].ok

\* C7: a poll response with a submodel reporting Fail ends the run on that
\* iteration as failed with the training error, and no publish call and no
\* fingerprint write follow.
C7_TrainingFailurePropagates ==
  sawFail =>
    /\ pc = "done" /\ outcome = "failed" /\ error.kind = "TrainingFailed"
    /\ {"publish", "kvsSet"} \cap Ops(calls) = {}

\* C8: a run throws to its caller exactly for an unknown or unsupported
\* entity type and for an app-info failure; import, training and publish
\* failures end the run normally, logged.
C8_ErrorSurfacing ==
  pc = "done" =>
    /\ (outcome = "raised") <=>
         (error.kind \in {"UnknownEntity", "UnsupportedEntity", "AppNotFound"})
    /\ error.kind \in {"ImportError", "TrainError", "NotQueued", "PollError",
                       "TrainingFailed", "PublishError"} => outcome = "failed"
    /\ (\E k \in 1..Len(calls) :
          calls[k].op \in {"import", "train", "poll", "publish"} /\ ~calls[k].ok)
        => outcome = "failed"

\* The number of utterances of a corpus.
RECURSIVE UtteranceCount(_, _)
UtteranceCount(localIntents, i) ==
  IF i > Len(localIntents) THEN 0
  ELSE Len(localIntents[i].utterances) + UtteranceCount(localIntents, i + 1)

\* The last-modified time of the managed version in a version list.
TimeIn(list) ==
  (CHOOSE v \in { list[k] : k \in 1..Len(list) } : v.version = LUIS_APP_VERSION)
    .lastModifiedDateTime

\* A finished run that started with no fingerprint and no remote version, in
\* which every call succeeded, training was queued and no submodel failed,
\* and whose re-read found the version it imported.
FirstSyncAllWell ==
  /\ pc = "done" /\ kvsAtStart = Undefined
  /\ calls[1].ok /\ ~HasVersion(calls[1].arg)
  /\ ~HasBadLabel(intents)
  /\ \A k \in 1..Len(calls) : calls[k].ok
  /\ \A k \in At(calls, "train") : calls[k].arg = "Queued"
  /\ ~sawFail
  /\ \A k \in At(calls, "lookup") : k > 1 => HasVersion(calls[k].arg)

\* C9: such a first sync issues no delete, one import carrying one intent
\* entry per corpus intent and one utterance entry per corpus utterance, polls
\* until no submodel is in progress, publishes once with staging set, and
\* ends with the fingerprint of the corpus and of the re-read timestamp.
C9_FirstSync ==
  FirstSyncAllWell =>
    /\ outcome = "synced"
    /\ At(calls, "delete") = {}
    /\ Cardinality(At(calls, "import")) = 1
    /\ \A k \in At(calls, "import") :
         /\ Len(calls[k].arg.intents) = Len(intents)
         /\ \A i \in 1..Len(intents) : calls[k].arg.intents[i].name = intents[i].name
         /\ Len(calls[k].arg.utterances) = UtteranceCount(intents, 1)
    /\ At(calls, "poll") # {}
    /\ percent[2] > 0 /\ percent[1] = percent[2]
    /\ Cardinality(At(calls, "publish")) = 1
    /\ \A k \in At(calls, "publish") : calls[k].arg.isStaging = TRUE
    /\ kvs = [kind |-> "object", hash |-> IntentsHash(intents),
              time |-> TimeIn(calls[Len(calls) - 1].arg)]

C9_Witness ==
  FirstSyncAllWell /\ outcome = "synced" /\ Len(intents) = 2 /\ Count(calls, "poll") = 2

\* C10: the delete call is issued exactly by the runs that need a sync and
\* whose version lookup succeeded and found the managed version.
C10_DeleteIffExistingVersion ==
  /\ At(calls, "delete") # {} => FoundVersion
  /\ (pc \notin {"idle", "lookup", "check", "delete"} /\ ~EndedAtCheck /\ FoundVersion)
       => At(calls, "delete") # {}

\* The place of a call in the order of a run: the lookup that opens the run,
\* the delete, the app-info fetch, the import, the training start, the polls,
\* the publish, the re-read and the fingerprint write.
Rank(cs, k) ==
  CASE cs[k].op = "lookup" -> IF k = 1 THEN 1 ELSE 9
    [] cs[k].op = "delete" -> 2
    [] cs[k].op = "appInfo" -> 4
    [] cs[k].op = "import" -> 5
    [] cs[k].op = "train" -> 6
    [] cs[k].op = "poll" -> 7
    [] cs[k].op = "publish" -> 8
    [] cs[k].op = "kvsSet" -> 10

\* The position in the run (payload construction has rank 3).
PcRank ==
  CASE pc = "lookup" -> 1
    [] pc = "check" -> 1
    [] pc = "delete" -> 2
    [] pc = "build" -> 3
    [] pc = "appInfo" -> 4
    [] pc = "import" -> 5
    [] pc = "train" -> 6
    [] pc = "poll" -> 7
    [] pc = "publish" -> 8
    [] pc = "reread" -> 9
    [] pc = "record" -> 10

ConstructionError == error.kind \in {"UnknownEntity", "UnsupportedEntity"}

\* C11: the calls of a run are issued in the order lookup, delete, app-info,
\* import, training start, polls, publish, re-read, fingerprint write, each
\* at most once except the polls, and every call issued so far comes before
\* the step the run is at; the training start directly follows an import
\* call that succeeded; publish directly follows a successful poll that
\* found no submodel in progress; a delete is never issued after payload
\* construction, and a construction error after a successful delete leaves
\* no remote version and no import call.
C11_Ordering ==
  /\ \A j \in 1..Len(calls) : \A k \in 1..Len(calls) :
       j < k => /\ Rank(calls, j) <= Rank(calls, k)
                /\ Rank(calls, j) = Rank(calls, k) => calls[k].op = "poll"
  /\ pc \notin {"idle", "done"} =>
       \A k \in 1..Len(calls) :
         /\ Rank(calls, k) <= PcRank
         /\ (Rank(calls, k) = PcRank) => pc \in {"check", "poll"}
  /\ \A k \in At(calls, "train") :
       k > 1 /\ calls[k - 1].op = "import" /\ calls[k - 1].ok
  /\ \A k \in At(calls, "publish") :
       /\ k > 1 /\ calls[k - 1].op = "poll" /\ calls[k - 1].ok
       /\ PercentGE1(percent)
  /\ (pc = "done" /\ ConstructionError) =>
       /\ \A k \in 1..Len(calls) : calls[k].op \in {"lookup", "delete"}
       /\ (\E k \in At(calls, "delete") : calls[k].ok) => ~remote.exists

\* A run that deleted the old version and went through every step, polling
\* twice.
C11_Witness ==
  /\ pc = "done" /\ outcome = "synced"
  /\ Ops(calls) = {"lookup", "delete", "appInfo", "import", "train", "poll",
                   "publish", "kvsSet"}
  /\ Count(calls, "poll") = 2 /\ calls[2].ok

\* The last call of the run is a poll that was answered.
JustPolled ==
  /\ pc \in {"poll", "publish", "done"} /\ calls # <<>>
  /\ calls[Len(calls)].op = "poll" /\ calls[Len(calls)].ok

\* C12: an answered poll with no failing submodel ends the loop with success
\* on that iteration exactly when no submodel of the response is in progress
\* (finished = total), a response with no submodels included; otherwise the
\* loop polls again.
C12_PollLoopExit ==
  (JustPolled /\ ~sawFail) =>
    /\ pc \in {"poll", "publish"}
    /\ (pc = "publish") <=> (percent[1] = percent[2])

\* The training start was answered with a status other than Queued.
NotQueuedAnswer ==
  \E k \in At(calls, "train") : calls[k].ok /\ calls[k].arg # "Queued"

\* C13: when the answer to the training start has a status other than
\* Queued, the run ends there as failed with the unexpected-state error
\* naming that status: the training start is its last call, there is no
\* poll, no publish and no fingerprint write, and the store is as it was.
C13_TrainingStartAcknowledgement ==
  NotQueuedAnswer =>
    /\ pc = "done" /\ outcome = "failed"
    /\ error = Error("NotQueued", calls[Len(calls)].arg)
    /\ calls[Len(calls)].op = "train"
    /\ {"poll", "publish", "kvsSet"} \cap Ops(calls) = {}
    /\ kvs = kvsAtStart

C13_Witness ==
  /\ NotQueuedAnswer /\ pc = "done" /\ error.kind = "NotQueued"
  /\ calls[Len(calls) - 1].op = "import" /\ calls[Len(calls) - 1].ok

\* The delete call of this run failed.
DeleteFailed == \E k \in At(calls, "delete") : ~calls[k].ok

\* C14: a run whose delete call failed goes on as after a successful delete:
\* after the delete it is at payload construction or at the app-info fetch
\* with no error, or has ended on a construction error; it ends only past
\* construction; with a supported corpus and an app-info
\* fetch that succeeded it issues the import call; and the import call
\* carries the payload built from the corpus.
C14_DeleteFailureSwallowed ==
  DeleteFailed =>
    /\ calls[Len(calls)].op = "delete" =>
         \/ pc \in {"build", "appInfo"} /\ outcome = "none" /\ error = NoError
         \/ pc = "done" /\ outcome = "raised" /\ ConstructionError
    /\ pc = "done" => (ConstructionError \/ "appInfo" \in Ops(calls))
    /\ (pc = "done" /\ ~HasBadLabel(intents) /\ ~AppInfoFailed) =>
         "import" \in Ops(calls)
    /\ \A k \in At(calls, "import") :
         calls[k].arg = Body(intents, BuildUtterances(intents), AppInfo)

\* The delete failed and the import call was issued all the same.
C14_Witness ==
  DeleteFailed /\ "import" \in Ops(calls) /\ pc = "done"

\* C15: a run that reports 'up to date' has ended without an error having
\* issued the version lookup and no other call, and the fingerprint store is
\* as it was when the run started; change detection, whatever it reports,
\* leaves the store as it was.
C15_UpToDatePath ==
  /\ (pc = "done" /\ outcome = "upToDate") =>
       /\ error = NoError
       /\ Len(calls) = 1 /\ calls[1].op = "lookup"
       /\ kvs = kvsAtStart
  /\ (WentOn \/ EndedAtCheck) => kvs = kvsAtStart
  /\ (pc = "idle" /\ prev.outcome = "upToDate") => (~prev.touched /\ kvs = kvsAtStart)

\* Up to date against a version that the lookup returned.
C15_Witness ==
  /\ pc = "done" /\ outcome = "upToDate" /\ currentVersion.kind = "version"
  /\ kvs # Undefined /\ kvs.time = currentVersion.lastModifiedDateTime

\* The labels of utterance j of intent i, as the extractor gives them.
LabelsOf(localIntents, i, j) ==
  ExtractLabelsFromCanonical(localIntents[i].utterances[j],
                             localIntents[i].entities).labels

\* The places <<intent, utterance, label>> of the labels of a corpus.
Refs(localIntents) ==
  UNION { UNION { { <<i, j, k>> : k \in 1..Len(LabelsOf(localIntents, i, j)) }
                  : j \in 1..Len(localIntents[i].utterances) }
          : i \in 1..Len(localIntents) }

\* The provider-native name of the label at a place.
NameAt(localIntents, r) == Entities[LabelsOf(localIntents, r[1], r[2])[r[3]].type].luis.s

\* Corpus order of two places.
Earlier(r, q) ==
  \/ r[1] < q[1]
  \/ r[1] = q[1] /\ r[2] < q[2]
  \/ r[1] = q[1] /\ r[2] = q[2] /\ r[3] < q[3]

\* The place where a name is referenced first.
FirstRef(localIntents, n) ==
  CHOOSE r \in Refs(localIntents) :
    /\ NameAt(localIntents, r) = n
    /\ \A q \in Refs(localIntents) : NameAt(localIntents, q) = n => ~Earlier(q, r)

\* The payload of a corpus whose labels are all supported has been assembled.
PayloadBuilt == pc = "import" /\ body # NoBody /\ ~HasBadLabel(intents)

\* C16: the list of built-in entity names of the payload holds every
\* provider-native name that a label of the corpus refers to, no other name,
\* each once, in the order of the first reference when the corpus is walked
\* intent by intent, utterance by utterance, label by label.
C16_BuiltinEntityList ==
  PayloadBuilt =>
    LET b == body.bing_entities
    IN  /\ \A r \in Refs(intents) : \E k \in 1..Len(b) : b[k] = NameAt(intents, r)
        /\ \A k \in 1..Len(b) : \E r \in Refs(intents) : b[k] = NameAt(intents, r)
        /\ \A j \in 1..Len(b) : \A k \in 1..Len(b) :
             j < k => /\ b[j] # b[k]
                      /\ Earlier(FirstRef(intents, b[j]), FirstRef(intents, b[k]))

\* Two names, one of them referred to through two internal types and again
\* after the other name.
C16_Witness ==
  /\ PayloadBuilt /\ Len(body.bing_entities) = 2
  /\ \E r \in Refs(intents) : \E q \in Refs(intents) : \E t \in Refs(intents) :
       /\ Earlier(r, q) /\ Earlier(q, t)
       /\ NameAt(intents, r) = NameAt(intents, t)
       /\ NameAt(intents, r) # NameAt(intents, q)
       /\ LabelsOf(intents, r[1], r[2])[r[3]].type # LabelsOf(intents, t[1], t[2])[t[3]].type

\* C17: every entity span of the payload has 0 <= startPos < endPos <=
\* length of the text of the utterance that carries it, and the spans of an
\* utterance are the extractor's labels of that utterance, offsets unchanged.
C17_OffsetInvariant ==
  PayloadBuilt =>
    \A u \in 1..Len(body.utterances) :
      LET ut == body.utterances[u]
      IN  /\ \A k \in 1..Len(ut.entities) :
               /\ 0 <= ut.entities[k].startPos
               /\ ut.entities[k].startPos < ut.entities[k].endPos
               /\ ut.entities[k].endPos <= Len(ut.text)
          /\ \E i \in 1..Len(intents) : \E j \in 1..Len(intents[i].utterances) :
               LET labels == LabelsOf(intents, i, j)
               IN  /\ intents[i].name = ut.intent
                   /\ Len(labels) = Len(ut.entities)
                   /\ \A k \in 1..Len(labels) :
                        /\ ut.entities[k].startPos = labels[k].start
                        /\ ut.entities[k].endPos = labels[k].end

\* A span that starts inside the text and ends at its end, one character long.
C17_Witness ==
  /\ PayloadBuilt
  /\ \E u \in 1..Len(body.utterances) :
       \E k \in 1..Len(body.utterances[u].entities) :
         LET e == body.utterances[u].entities[k]
         IN  /\ e.startPos > 0 /\ e.endPos = e.startPos + 1
             /\ e.endPos = Len(body.utterances[u].text)

\* The publish call of the run succeeded.
Published == \E k \in At(calls, "publish") : calls[k].ok

\* C18: a run whose publish call succeeded ends as synced, never as failed,
\* with the stored fingerprint holding the hash of the corpus the run read
\* and the last-modified time of the version that a successful lookup after
\* publish returned; and a stored fingerprint always holds a timestamp.
C18_PublishedIsRecorded ==
  /\ (pc = "done" /\ Published) =>
       /\ outcome = "synced"
       /\ calls[Len(calls) - 1].op = "lookup" /\ calls[Len(calls) - 1].ok
       /\ HasVersion(calls[Len(calls) - 1].arg)
       /\ kvs = [kind |-> "object", hash |-> IntentsHash(intents),
                 time |-> TimeIn(calls[Len(calls) - 1].arg)]
  /\ kvs # Undefined => kvs.time.kind = "time"

\* C19: when nobody but the runs changes the remote model, a run that
\* reports 'up to date' finds the provider holding a published version
\* whose content is the payload of the corpus the run read.
C19_InSyncIsSound ==
  (pc = "done" /\ outcome = "upToDate") =>
    /\ remote.exists /\ remote.published
    /\ remote.body = Body(intents, BuildUtterances(intents), AppInfo)

\* The stored fingerprint holds the hash of one corpus and the timestamp of
\* the remote version, and that version was imported from another corpus.
Mismatch ==
  /\ kvs # Undefined /\ kvs.time.kind = "time"
  /\ remote.exists /\ remote.lastModifiedDateTime = kvs.time
  /\ remote.body # Body(kvs.hash.of, BuildUtterances(kvs.hash.of), AppInfo)

\* C20: the fingerprint of one corpus is stored with the timestamp of a
\* version imported from another corpus only when two invocations have been
\* in flight at the same time; invocations that follow one another never
\* reach such a state.
C20_OverlapNeeded ==
  Mismatch => overlapped

\* Both invocations are over, the fingerprint of the first corpus stands
\* with the timestamp of the second corpus's version, and change detection
\* on the first corpus against the version the provider holds says 'in sync'.
C20_Witness ==
  /\ Mismatch /\ overlapped
  /\ pc = "done" /\ other.pc = "done"
  /\ remote.body = Body(storage, BuildUtterances(storage), AppInfo)
  /\ IsInSync(kvs.hash.of, GetRemoteVersion(remote, TRUE), kvs) = "true"

====
